---- MODULE Spec2Model ----
(***************************************************************************)
(* Model of the Rosenbrock oracles of                                      *)
(* solving_unconstrained_nonlinear_programming_models_2.ipynb:             *)
(* Rosenbrock, Rosenbrock_derivative, Rosenbrock_second_derivative and     *)
(* Rosenbrock_second_derivative_p.                                         *)
(*                                                                         *)
(* Numbers are exact rationals <<num, den>> in lowest terms.  An ndarray   *)
(* is a record [dtype, data]; dtype is "int64" or "float64".  float64 is   *)
(* idealised as exact rational arithmetic (no rounding); int64 values stay *)
(* far from the 64-bit range within the bounds below.  What numpy does on  *)
(* a store into an array (cast to the array's dtype) is modelled as numpy  *)
(* does it: a store into an int64 array truncates toward zero.             *)
(*                                                                         *)
(* Every function body runs over a small heap `mem` (a sequence of         *)
(* buffers): buffer 1 is the caller's x, buffer 2 the caller's p, and      *)
(* np.zeros_like appends a fresh buffer.  Slices are views: they are read  *)
(* from the heap at the point of use.                                      *)
(***************************************************************************)
EXTENDS Integers, Sequences, FiniteSets, TLC

VARIABLES x, p, f, g, H, Hp

vars == <<x, p, f, g, H, Hp>>

\* ----------------------------------------------------------------- bounds
MinN == 2
MaxN == 3
MaxVal == 1
\* float inputs are multiples of 1/Den
Den == 4

\* ------------------------------------------------------- exact arithmetic
Abs(a) == IF a < 0 THEN -a ELSE a

RECURSIVE GCD(_, _)
GCD(a, b) == IF b = 0 THEN a ELSE GCD(b, a % b)

RNorm(n, d) == LET k == GCD(Abs(n), d) IN <<n \div k, d \div k>>

R(k) == <<k, 1>>

RAdd(a, b) == RNorm(a[1] * b[2] + b[1] * a[2], a[2] * b[2])

RSub(a, b) == RNorm(a[1] * b[2] - b[1] * a[2], a[2] * b[2])

RMul(a, b) == RNorm(a[1] * b[1], a[2] * b[2])

\* C cast of a floating value to an integer: truncation toward zero
Trunc(a) == IF a[1] >= 0 THEN a[1] \div a[2] ELSE -((-a[1]) \div a[2])

\* ----------------------------------------------------------------- numpy
Promote(d1, d2) == IF d1 = "float64" \/ d2 = "float64" THEN "float64" ELSE "int64"

\* the cast numpy applies to a value stored into an array of dtype dt
Cast(dt, a) == IF dt = "int64" THEN R(Trunc(a)) ELSE a

\* Python index normalisation of a slice bound for a sequence of length n
PyIdx(n, i) == LET j == IF i < 0 THEN n + i ELSE i
               IN  IF j < 0 THEN 0 ELSE IF j > n THEN n ELSE j

\* a[start:stop] (0-based, stop exclusive, negative bounds count from the end)
Slice(a, start, stop) ==
    LET n  == Len(a.data)
        lo == PyIdx(n, start)
        hi == PyIdx(n, stop)
    IN  [dtype |-> a.dtype, data |-> SubSeq(a.data, lo + 1, hi)]

\* a[i] as a one-element array (a numpy scalar keeps the array's dtype)
Item(a, i) ==
    LET n == Len(a.data)
        j == IF i < 0 THEN n + i ELSE i
    IN  [dtype |-> a.dtype, data |-> <<a.data[j + 1]>>]

\* a[start:]
SliceFrom(a, start) == Slice(a, start, Len(a.data))

VAdd(a, b) == [dtype |-> Promote(a.dtype, b.dtype),
               data  |-> [i \in 1..Len(a.data) |-> RAdd(a.data[i], b.data[i])]]

VSub(a, b) == [dtype |-> Promote(a.dtype, b.dtype),
               data  |-> [i \in 1..Len(a.data) |-> RSub(a.data[i], b.data[i])]]

VMul(a, b) == [dtype |-> Promote(a.dtype, b.dtype),
               data  |-> [i \in 1..Len(a.data) |-> RMul(a.data[i], b.data[i])]]

\* a ** 2
VSq(a) == VMul(a, a)

\* k * a, k + a, k - a for a Python int k (does not change the dtype)
SSub_swapped(k, a) == [dtype |-> a.dtype, data |-> [i \in 1..Len(a.data) |-> RSub(a.data[i], R(k))]]

SMul(k, a) == [dtype |-> a.dtype, data |-> [i \in 1..Len(a.data) |-> RMul(R(k), a.data[i])]]

SAdd(k, a) == [dtype |-> a.dtype, data |-> [i \in 1..Len(a.data) |-> RAdd(R(k), a.data[i])]]

SSub(k, a) == [dtype |-> a.dtype, data |-> [i \in 1..Len(a.data) |-> RSub(R(k), a.data[i])]]

\* k * a for a Python float k (the result is float64)
FMul(k, a) == [dtype |-> "float64", data |-> [i \in 1..Len(a.data) |-> RMul(R(k), a.data[i])]]

RECURSIVE SumSeq(_)
SumSeq(s) == IF s = <<>> THEN R(0) ELSE RAdd(s[1], SumSeq(Tail(s)))

\* np.sum(a)
NpSum(a) == SumSeq(a.data)

\* np.zeros_like(mem[id]): a fresh buffer of the same shape and dtype
zeros_like_alias(mem, id) == [mem |-> mem, id |-> id]

zeros_like(mem, id) ==
    [mem |-> Append(mem, [dtype |-> mem[id].dtype,
                          data  |-> [i \in 1..Len(mem[id].data) |-> R(0)]]),
     id  |-> Len(mem) + 1]

\* np.asarray of an ndarray is the ndarray itself
asarray(mem, id) == id

\* mem[id][start:stop] = v
SetSlice(mem, id, start, stop, v) ==
    LET a  == mem[id]
        n  == Len(a.data)
        lo == PyIdx(n, start)
        hi == PyIdx(n, stop)
    IN  [mem EXCEPT ![id].data =
            [i \in 1..n |-> IF i > lo /\ i <= hi
                            THEN Cast(a.dtype, v.data[i - lo])
                            ELSE a.data[i]]]

\* mem[id][i] = v   (v a one-element array)
SetItem(mem, id, i, v) ==
    LET a == mem[id]
        n == Len(a.data)
        j == IF i < 0 THEN n + i ELSE i
    IN  [mem EXCEPT ![id].data[j + 1] = Cast(a.dtype, v.data[1])]

\* np.diag(v, k): the square matrix with v on the k-th diagonal
Diag(v, k) ==
    LET m == Len(v.data) + Abs(k)
    IN  [dtype |-> v.dtype,
         data  |-> [i \in 1..m |-> [j \in 1..m |->
                      IF j - i = k THEN v.data[IF k >= 0 THEN i ELSE j] ELSE R(0)]]]

MAdd(A, B) == [dtype |-> Promote(A.dtype, B.dtype),
               data  |-> [i \in 1..Len(A.data) |-> [j \in 1..Len(A.data) |->
                            RAdd(A.data[i][j], B.data[i][j])]]]

MSub_plus(A, B) == MAdd(A, B)

MSub(A, B) == [dtype |-> Promote(A.dtype, B.dtype),
               data  |-> [i \in 1..Len(A.data) |-> [j \in 1..Len(A.data) |->
                            RSub(A.data[i][j], B.data[i][j])]]]

\* --------------------------------------------------------------- oracles
\* def Rosenbrock(x); the result is the float np.sum returns
Rosenbrock(xa) ==
    LET mem == <<xa>>
        X   == 1
        a   == VSub(SliceFrom(mem[X], 1), VSq(Slice(mem[X], 0, -1)))
        b   == SSub(1, Slice(mem[X], 0, -1))
    IN  [mem |-> mem, ret |-> NpSum(VAdd(FMul(100, VSq(a)), VSq(b)))]

\* def Rosenbrock_derivative(x)
Rosenbrock_derivative(xa) ==
    LET m0 == <<xa>>
        X  == 1
        xm(m)    == Slice(m[X], 1, -1)
        xm_m1(m) == Slice(m[X], 0, -2)
        xm_p1(m) == SliceFrom(m[X], 2)
        z  == zeros_like(m0, X)
        D  == z.id
        m1 == z.mem
        m2 == SetSlice(m1, D, 1, -1,
                 VSub(VSub(SMul(200, VSub(xm(m1), VSq(xm_m1(m1)))),
                           VMul(SMul(400, xm(m1)), VSub(xm_p1(m1), VSq(xm(m1))))),
                      SMul(2, SSub(1, xm(m1)))))
        m3 == SetItem(m2, D, 0,
                 VSub(VMul(SMul(-400, Item(m2[X], 0)),
                           VSub(Item(m2[X], 1), VSq(Item(m2[X], 0)))),
                      SMul(2, SSub(1, Item(m2[X], 0)))))
        m4 == SetItem(m3, D, -1,
                 SMul(200, VSub(Item(m3[X], -1), VSq(Item(m3[X], -2)))))
    IN  [mem |-> m4, ret |-> m4[D]]

\* def Rosenbrock_second_derivative(x)
Rosenbrock_second_derivative(xa) ==
    LET m0 == <<xa>>
        X  == asarray(m0, 1)
        H0 == MSub(Diag(SMul(-400, Slice(m0[X], 0, -1)), 1),
                   Diag(SMul(400, Slice(m0[X], 0, -1)), -1))
        z  == zeros_like(m0, X)
        D  == z.id
        m1 == z.mem
        m2 == SetItem(m1, D, 0,
                 SAdd(2, VSub(SMul(1200, VSq(Item(m1[X], 0))),
                              SMul(400, Item(m1[X], 1)))))
        m3 == SetItem(m2, D, -1, [dtype |-> "int64", data |-> <<R(200)>>])
        m4 == SetSlice(m3, D, 1, -1,
                 VSub(SAdd(202, SMul(1200, VSq(Slice(m3[X], 1, -1)))),
                      SMul(400, SliceFrom(m3[X], 2))))
    IN  [mem |-> m4, ret |-> MAdd(H0, Diag(m4[D], 0))]

\* def Rosenbrock_second_derivative_p(x, p)
Rosenbrock_second_derivative_p(xa, pa) ==
    LET m0 == <<xa, pa>>
        X  == asarray(m0, 1)
        P  == 2
        z  == zeros_like(m0, X)
        D  == z.id
        m1 == z.mem
        m2 == SetItem(m1, D, 0,
                 VSub(VMul(SAdd(2, VSub(SMul(1200, VSq(Item(m1[X], 0))),
                                        SMul(400, Item(m1[X], 1)))),
                           Item(m1[P], 0)),
                      VMul(SMul(400, Item(m1[X], 0)), Item(m1[P], 1))))
        m3 == SetSlice(m2, D, 1, -1,
                 VSub(VAdd(VMul(SMul(-400, Slice(m2[X], 0, -2)), Slice(m2[P], 0, -2)),
                           VMul(VSub(SAdd(202, SMul(1200, VSq(Slice(m2[X], 1, -1)))),
                                     SMul(400, SliceFrom(m2[X], 2))),
                                Slice(m2[P], 1, -1))),
                      VMul(SMul(400, Slice(m2[X], 1, -1)), SliceFrom(m2[P], 2))))
        m4 == SetItem(m3, D, -1,
                 VAdd(VMul(SMul(-400, Item(m3[X], -2)), Item(m3[P], -2)),
                      SMul(200, Item(m3[P], -1))))
    IN  [mem |-> m4, ret |-> m4[D]]

\* ------------------------------------------------------------ the program
\* integer elements: nonzero, of both signs, so that no entry of the Hessian
\* vanishes by accident
IntVals == {R(k) : k \in (-1..MaxVal) \ {0}}

FloatVals == {RNorm(k, Den) : k \in {-3, 1}}

\* the arrays given as x
Vectors(n) == {[dtype |-> "int64", data |-> d] : d \in [1..n -> IntVals]}
                \cup {[dtype |-> "float64", data |-> d] : d \in [1..n -> FloatVals]}

\* the arrays given as p (the product is linear in p: fewer values suffice)
PVectors(n) == {[dtype |-> "int64", data |-> d] : d \in [1..n -> {R(0), R(1)}]}
                 \cup {[dtype |-> "float64", data |-> d] : d \in [1..n -> FloatVals]}

\* an oracle result is <<>> until the oracle has been called, then <<value>>
Init ==
    \E n \in MinN..MaxN :
        /\ x \in Vectors(n)
        /\ p \in PVectors(n)
        /\ f = <<>> /\ g = <<>> /\ H = <<>> /\ Hp = <<>>

CallRosenbrock ==
    LET r == Rosenbrock(x)
    IN  /\ f' = <<r.ret>>
        /\ x' = r.mem[1]
        /\ UNCHANGED <<p, g, H, Hp>>

CallRosenbrock_derivative ==
    LET r == Rosenbrock_derivative(x)
    IN  /\ g' = <<r.ret>>
        /\ x' = r.mem[1]
        /\ UNCHANGED <<p, f, H, Hp>>

CallRosenbrock_second_derivative ==
    LET r == Rosenbrock_second_derivative(x)
    IN  /\ H' = <<r.ret>>
        /\ x' = r.mem[1]
        /\ UNCHANGED <<p, f, g, Hp>>

CallRosenbrock_second_derivative_p ==
    LET r == Rosenbrock_second_derivative_p(x, p)
    IN  /\ Hp' = <<r.ret>>
        /\ x' = r.mem[1]
        /\ p' = r.mem[2]
        /\ UNCHANGED <<f, g, H>>

Next ==
    \/ CallRosenbrock
    \/ CallRosenbrock_derivative
    \/ CallRosenbrock_second_derivative
    \/ CallRosenbrock_second_derivative_p

Spec == Init /\ [][Next]_vars

\* ---------------------------------------------------------------- claims
N == Len(x.data)

xAt(i) == x.data[i]

\* the matrix-vector product A . v
MatVec(A, v) == [i \in 1..Len(A.data) |->
                    SumSeq([j \in 1..Len(v.data) |-> RMul(A.data[i][j], v.data[j])])]

\* C1: whenever both have been called on (x, p), the result of
\* Rosenbrock_second_derivative_p(x, p) equals, component by component, the
\* product of the matrix Rosenbrock_second_derivative(x) with p.
C1_HessP_Equals_HessDotP ==
    (H # <<>> /\ Hp # <<>>) => Hp[1].data = MatVec(H[1], p)

\* the product agrees with the matrix whenever no store into Hp has to cast,
\* that is unless x is an integer array and p a floating one
HessP_Equals_HessDotP_NoCast ==
    (H # <<>> /\ Hp # <<>> /\ (x.dtype = "float64" \/ p.dtype = "int64"))
        => Hp[1].data = MatVec(H[1], p)

\* the entry (i, j) of the Hessian as the notebook documents it (1-based)
DocumentedH(i, j) ==
    IF i = j
    THEN IF i = 1 THEN RAdd(RSub(RMul(R(1200), RMul(xAt(1), xAt(1))), RMul(R(400), xAt(2))), R(2))
         ELSE IF i = N THEN R(200)
         ELSE RSub(RAdd(R(202), RMul(R(1200), RMul(xAt(i), xAt(i)))), RMul(R(400), xAt(i + 1)))
    ELSE IF j = i + 1 THEN RMul(R(-400), xAt(i))
    ELSE IF j = i - 1 THEN RMul(R(-400), xAt(j))
    ELSE R(0)

\* C2: the result of Rosenbrock_second_derivative(x) is an n-by-n symmetric
\* tridiagonal matrix whose entries are those of the documented Hessian.
C2_HessianIsDocumentedMatrix ==
    H # <<>> =>
        /\ Len(H[1].data) = N
        /\ \A i \in 1..N :
              /\ Len(H[1].data[i]) = N
              /\ \A j \in 1..N :
                    /\ H[1].data[i][j] = DocumentedH(i, j)
                    /\ H[1].data[i][j] = H[1].data[j][i]
                    /\ (j > i + 1 \/ j < i - 1) => H[1].data[i][j] = R(0)

C2_Witness ==
    /\ H # <<>>
    /\ N >= 3
    /\ \A i \in 1..N : xAt(i) # R(0)
    /\ H[1].data[2][2] # R(202)

\* the i-th partial derivative as the claim writes it (1-based)
DocumentedG(i) ==
    LET sq(a) == RMul(a, a)
        head(k) == RSub(RMul(RMul(R(-400), xAt(k)), RSub(xAt(k + 1), sq(xAt(k)))),
                        RMul(R(2), RSub(R(1), xAt(k))))
        tail(k) == RMul(R(200), RSub(xAt(k), sq(xAt(k - 1))))
    IN  IF i = 1 THEN head(1)
        ELSE IF i = N THEN tail(N)
        ELSE RAdd(tail(i), head(i))

\* x with k added to component i
Shifted(i, k) == [x EXCEPT !.data[i] = RAdd(@, R(k))]

\* 12 times the partial derivative of Rosenbrock with respect to x_i, by the
\* five-point central difference, which is exact for a polynomial of degree
\* four in x_i
TwelveDf(i) ==
    RSub(RMul(R(8), RSub(Rosenbrock(Shifted(i, 1)).ret, Rosenbrock(Shifted(i, -1)).ret)),
         RSub(Rosenbrock(Shifted(i, 2)).ret, Rosenbrock(Shifted(i, -2)).ret))

\* C3: the result of Rosenbrock_derivative(x) has the dimension of x, its
\* components are the documented expressions, and each is the exact partial
\* derivative of the function Rosenbrock computes.
C3_GradientIsExact ==
    g # <<>> =>
        /\ Len(g[1].data) = N
        /\ \A i \in 1..N :
              /\ g[1].data[i] = DocumentedG(i)
              /\ RMul(R(12), g[1].data[i]) = TwelveDf(i)

C3_Witness ==
    /\ g # <<>>
    /\ N >= 3
    /\ x.dtype = "float64"
    /\ \A i \in 1..N : g[1].data[i] # R(0)

\* C10: every oracle call leaves the caller's x and p as they were, and a
\* call repeated on the same arguments returns what the earlier call returned.
C10_OraclesPure ==
    [][/\ x' = x
       /\ p' = p
       /\ f # <<>> => f' = f
       /\ g # <<>> => g' = g
       /\ H # <<>> => H' = H
       /\ Hp # <<>> => Hp' = Hp]_vars

C10_Witness ==
    /\ f # <<>> /\ g # <<>> /\ H # <<>> /\ Hp # <<>>
    /\ g[1] # x
    /\ Hp[1] # x

====
